---- MODULE Spec2Model ----
(***************************************************************************)
(* jelling: a BLE GATT peripheral that types the digits written to its     *)
(* characteristic on a uinput keyboard.  The model follows src/jelling.c:  *)
(* main's setup sequence and event loop, the bus handlers of the three     *)
(* exported objects, the registration discovery handler and the event()    *)
(* emitter, one action per handler or step.  The environment is the bus    *)
(* client (method calls, property reads), bluez (managed objects,          *)
(* InterfacesAdded signals, replies to registration calls), the kernel     *)
(* (device writes that may fail) and POSIX signals.                        *)
(***************************************************************************)
EXTENDS Integers, Sequences, FiniteSets, TLC

\* ------------------------------------------------------------ bounds
\* Events of the environment during one run: a message a bus client sends,
\* an object bluez adds or removes, a reply bluez sends, a trapped signal
\* delivered, a device write the kernel fails.
MaxEnv == 3
\* Length of the short values of a WriteValue call checked alone.
MaxLen == 3
\* Environment events of a run checked under fairness.
MaxFairEnv == 2

\* ------------------------------------------------- program constants
KEY_0 == 11
KEY_1 == 2
KEY_2 == 3
KEY_3 == 4
KEY_4 == 5
KEY_5 == 6
KEY_6 == 7
KEY_7 == 8
KEY_8 == 9
KEY_9 == 10
KEY_ENTER == 28
KEY_UNKNOWN == 240
EV_SYN == 0
EV_KEY == 1
\* chr_writevalue: size == 0 || size > 32
MAX_SIZE == 32
\* event: usleep(50000)
HOLD_US == 50000

MAN_PATH == "/"
ADV_PATH == "/adv"
SVC_PATH == "/svc"
CHR_PATH == "/svc/chr"
SVC_UUID == "B670003C-0079-465C-9BA7-6C0539CCD67F"
CHR_UUID == "F4186B06-D796-4327-AF39-AC22C50BDCA8"

GATT_MANAGER == "org.bluez.GattManager1"
ADV_MANAGER == "org.bluez.LEAdvertisingManager1"
\* An interface of a bluez object that is neither manager.
ADAPTER == "org.bluez.Adapter1"

\* ------------------------------------------------------ pure helpers
\* char2key: the key code of a byte, KEY_UNKNOWN for every non-digit.
char2key(c) ==
    CASE c = 48 -> KEY_0
      [] c = 49 -> KEY_1
      [] c = 50 -> KEY_2
      [] c = 51 -> KEY_3
      [] c = 52 -> KEY_4
      [] c = 53 -> KEY_5
      [] c = 54 -> KEY_6
      [] c = 55 -> KEY_7
      [] c = 56 -> KEY_8
      [] c = 57 -> KEY_9
      [] OTHER -> KEY_UNKNOWN

\* A reply on the bus: an error name ("" for a method return) and the
\* returned value as its signature followed by its elements.
Ret(v) == [error |-> "", value |-> v]
Err(e) == [error |-> e, value |-> <<>>]

\* adv_props: the property getter of the advertisement object.
adv_props(property) ==
    CASE property = "Type" -> Ret(<<"s", "broadcast">>)
      [] property = "IncludeTxPower" -> Ret(<<"b", "true">>)
      [] property = "ServiceUUIDs" -> Ret(<<"as", SVC_UUID>>)
      [] property = "SolicitUUIDs" -> Ret(<<"as">>)
      [] property = "ManufacturerData" -> Ret(<<"a{qay}">>)
      [] property = "ServiceData" -> Ret(<<"a{say}">>)
      [] OTHER -> Err("ENOENT")

\* svc_props: the property getter of the service object; every name that is
\* neither UUID nor Primary is answered with an object-path array.
svc_props(property) ==
    CASE property = "UUID" -> Ret(<<"s", SVC_UUID>>)
      [] property = "Primary" -> Ret(<<"b", "true">>)
      [] property = "Characteristics" -> Ret(<<"ao", CHR_PATH>>)
      [] OTHER -> Ret(<<"ao">>)

\* chr_props: the property getter of the characteristic object.
chr_props(property) ==
    CASE property = "UUID" -> Ret(<<"s", CHR_UUID>>)
      [] property = "Service" -> Ret(<<"o", SVC_PATH>>)
      [] property = "Notifying" -> Ret(<<"b", "false">>)
      [] property = "Flags" -> Ret(<<"as", "encrypt-authenticated-write">>)
      [] property = "Descriptors" -> Ret(<<"ao">>)
      [] OTHER -> Err("ENOENT")

\* The vtables: the properties and methods the bus library dispatches.
adv_vtable ==
    [props |-> {"Type", "ServiceUUIDs", "ManufacturerData", "SolicitUUIDs",
                "ServiceData", "IncludeTxPower"},
     methods |-> {"Release"}]

svc_vtable ==
    [props |-> {"UUID", "Primary", "Characteristics", "Includes"},
     methods |-> {}]

chr_vtable ==
    [props |-> {"UUID", "Service", "Notifying", "Flags", "Descriptors"},
     methods |-> {"ReadValue", "WriteValue", "StartNotify", "StopNotify"}]

no_vtable == [props |-> {}, methods |-> {}]

\* The vtable setup_objects attaches to a path.
vtable(path) ==
    CASE path = ADV_PATH -> adv_vtable
      [] path = SVC_PATH -> svc_vtable
      [] path = CHR_PATH -> chr_vtable
      [] OTHER -> no_vtable

getter(path, property) ==
    CASE path = ADV_PATH -> adv_props(property)
      [] path = SVC_PATH -> svc_props(property)
      [] path = CHR_PATH -> chr_props(property)
      [] OTHER -> Err("ENOENT")

\* ---------------------------------------------------------- the state
VARIABLES
    pc,        \* main's position: a setup step, the event loop, or exited
    exported,  \* the object paths setup_objects has put on the bus
    match,     \* whether the InterfacesAdded subscription is installed
    input,     \* the uinput handle: "none", "created" or "closed"
    queue,     \* messages received on the bus connection, not yet dispatched
    cur,       \* the WriteValue call being emitted and event()'s position in it
    dev,       \* what the device has seen: the writes and the hold delays
    regs,      \* the registration calls issued, in order
    last,      \* the last client call answered and its reply
    bluez,     \* the objects bluez manages, in order of appearance
    answered,  \* the registration calls (indices of regs) bluez has replied to
    stderr,    \* the messages printed: by error(), and by on_reply
    nenv,      \* the events of the environment so far
    nodes,     \* what open() answers for each path of devices
    fd,        \* the path of devices the uinput handle was opened on, "" for none
    keybits    \* the key codes declared on the uinput device

vars == <<pc, exported, match, input, queue, cur, dev, regs, last, bluez,
          answered, stderr, nenv, nodes, fd, keybits>>

\* ------------------------------------------------- the inputs' ranges
\* n copies of byte c.
Rep(n, c) == [i \in 1..n |-> c]

\* The values a client writes: the empty value; digits alone, repeated and
\* in order ('0' is 48, '9' is 57); a byte next to the digits alone ('/' is
\* 47) and after a digit (':' is 58); and the values at the length limit
\* ('1' is 49).
Inputs ==
    {<<>>, <<48>>, <<48, 48>>, <<48, 57>>, <<47>>, <<48, 58>>,
     Rep(MAX_SIZE + 1, 49), Rep(MAX_SIZE - 1, 49) \o <<58>>}

\* The object paths a client addresses and the property reads it makes: a
\* scalar, two arrays and an unlisted name.
Paths == {ADV_PATH, SVC_PATH, CHR_PATH}
Properties(path) ==
    CASE path = ADV_PATH -> {"Type"}
      [] path = SVC_PATH -> {"Includes"}
      [] path = CHR_PATH -> {"Flags", "Bogus"}

\* The bluez objects and the interface lists they carry.
Objs == {"/org/bluez/hci0"}
IfaceLists ==
    {<<ADAPTER>>, <<GATT_MANAGER>>, <<ADAPTER, ADV_MANAGER, GATT_MANAGER>>}

\* The time a usleep cut short by a signal has lasted.
InterruptedSleeps == {0, HOLD_US - 1}

\* --------------------------------------------------------- messages
Call(id, path, member, arg) ==
    [type |-> "call", id |-> id, path |-> path, member |-> member, arg |-> arg]
Get(id, path, property) ==
    [type |-> "get", id |-> id, path |-> path, member |-> property, arg |-> <<>>]
Signal(obj, ifaces) ==
    [type |-> "signal", id |-> 0, path |-> obj, member |-> "InterfacesAdded",
     arg |-> ifaces]
Reply(id, serial, error) ==
    [type |-> "reply", id |-> id, path |-> "", member |-> error, arg |-> <<serial>>]

NoCall ==
    [type |-> "", id |-> 0, path |-> "", member |-> "", arg |-> <<>>,
     result |-> Ret(<<>>)]
NoCur == [id |-> 0, bytes |-> <<>>, n |-> 0, down |-> FALSE, i |-> 0]

Answer(m, result) ==
    [type |-> m.type, id |-> m.id, path |-> m.path, member |-> m.member,
     arg |-> m.arg, result |-> result]

\* The device nodes of a run of the whole program: the first path absent
\* and the second one there, the first path refusing, no path there.
Nodes ==
    {<<"ENOENT", "ok", "ok">>, <<"EACCES", "ok", "ok">>, <<"ENOENT", "ENOENT", "ENOENT">>}

Init ==
    /\ pc = "start"
    /\ exported = {}
    /\ match = FALSE
    /\ input = "none"
    /\ queue = <<>>
    /\ cur = NoCur
    /\ dev = <<>>
    /\ regs = <<>>
    /\ last = NoCall
    /\ bluez = <<>>
    /\ answered = {}
    /\ stderr = <<>>
    /\ nenv = 0
    /\ nodes \in Nodes
    /\ fd = ""
    /\ keybits = {}

\* ------------------------------------------------------ main: setup
Running == pc \in {"enumerate", "wait", "process", "event"}
Exited == pc \in {"exit_ok", "exit_fail"}

\* error(EXIT_FAILURE, ...): the message, and the process ends.
Fatal(message) ==
    /\ pc' = "exit_fail"
    /\ stderr' = Append(stderr, [id |-> 0, error |-> message])

\* main: sd_bus_open_system; a failure is fatal.
main_open_bus ==
    /\ pc = "start"
    /\ \/ pc' = "uinput" /\ stderr' = stderr
       \/ Fatal("Error connecting to system bus")
    /\ UNCHANGED <<exported, match, input, fd, keybits, nodes, queue, cur, dev, regs, last, bluez,
                   answered, nenv>>

\* The outcome of open() on each device path.
OpenResults == {"ok", "ENOENT", "EACCES"}
devices == <<"/dev/input/uinput", "/dev/uinput", "/dev/misc/uinput">>

\* setup_uinput's open loop: the index of the path it opens, 0 when it ends
\* in error(): an errno other than ENOENT, or every path ENOENT and the
\* list's NULL end handed to open().
RECURSIVE open_loop(_, _)
open_loop(opens, i) ==
    IF i > Len(devices) THEN 0
    ELSE IF opens[i] = "ok" THEN i
    ELSE IF opens[i] = "ENOENT" THEN open_loop(opens, i + 1)
    ELSE 0

\* The path named by the message of the error() that ends the open loop.
RECURSIVE open_error(_, _)
open_error(opens, i) ==
    IF i > Len(devices) THEN "(null)"
    ELSE IF opens[i] = "ENOENT" THEN open_error(opens, i + 1)
    ELSE devices[i]

\* The key codes of setup_uinput's UI_SET_KEYBIT loop without the case of
\* the newline.
setup_keybits_digits_only ==
    {char2key(c) : c \in {c \in 0..254 : char2key(c) # KEY_UNKNOWN}}

\* The key codes of setup_uinput's UI_SET_KEYBIT loop over c < UINT8_MAX:
\* char2key(c) where it is a key, and KEY_ENTER for the newline.
setup_keybits ==
    {char2key(c) : c \in {c \in 0..254 : char2key(c) # KEY_UNKNOWN}}
      \cup {KEY_ENTER : c \in {c \in 0..254 : char2key(c) = KEY_UNKNOWN /\ c = 10}}

\* The messages of setup_uinput's error() calls after the open loop.
UinputFailures ==
    {"Error setting uinput KEY type", "Error setting uinput SYN type",
     "Error setting uinput keybit", "Error writing uinput device description",
     "Error creating uinput device"}

\* setup_uinput: open a device node, declare the keys, create the device.
setup_uinput ==
    /\ pc = "uinput"
    /\ IF open_loop(nodes, 1) = 0
       THEN /\ Fatal("Error opening " \o open_error(nodes, 1))
            /\ UNCHANGED <<input, fd, keybits>>
       ELSE \/ /\ pc' = "objects"
               /\ input' = "created"
               /\ fd' = devices[open_loop(nodes, 1)]
               /\ keybits' = setup_keybits
               /\ stderr' = stderr
            \/ /\ \E message \in UinputFailures : Fatal(message)
               /\ UNCHANGED <<input, fd, keybits>>
    /\ UNCHANGED <<exported, match, queue, cur, dev, regs, last, bluez,
                   answered, nenv, nodes>>

\* setup_objects going on without the characteristic's vtable.
setup_objects_no_characteristic ==
    /\ pc = "objects"
    /\ \/ /\ pc' = "match"
          /\ exported' = {MAN_PATH, ADV_PATH, SVC_PATH}
          /\ stderr' = stderr
       \/ /\ \E message \in {"Error adding object manager", "Error creating advertisement",
                              "Error creating service"} :
                Fatal(message)
          /\ exported' = exported
    /\ UNCHANGED <<match, input, fd, keybits, nodes, queue, cur, dev, regs, last, bluez,
                   answered, nenv>>

\* setup_objects: the object manager and the three vtables.
setup_objects ==
    /\ pc = "objects"
    /\ \/ /\ pc' = "match"
          /\ exported' = {MAN_PATH, ADV_PATH, SVC_PATH, CHR_PATH}
          /\ stderr' = stderr
       \/ /\ \E message \in {"Error adding object manager", "Error creating advertisement",
                              "Error creating service", "Error creating characteristic"} :
                Fatal(message)
          /\ exported' = exported
    /\ UNCHANGED <<match, input, fd, keybits, nodes, queue, cur, dev, regs, last, bluez,
                   answered, nenv>>

\* A registration call as it goes out on the bus.
RegCall(obj, iface, member, path) ==
    [obj |-> obj, iface |-> iface, member |-> member, path |-> path]

\* on_bt_iface returning after the first registration call of a report.
RECURSIVE on_bt_iface_first_only(_, _)
on_bt_iface_first_only(obj, ifaces) ==
    IF ifaces = <<>> THEN <<>>
    ELSE LET iface == Head(ifaces)
         IN  IF iface = GATT_MANAGER
             THEN <<RegCall(obj, iface, "RegisterApplication", MAN_PATH)>>
             ELSE IF iface = ADV_MANAGER
             THEN <<RegCall(obj, iface, "RegisterAdvertisement", ADV_PATH)>>
             ELSE on_bt_iface_first_only(obj, Tail(ifaces))

\* on_bt_iface: the registration calls issued for one reported object, one
\* per manager interface in the report, in the report's order.
RECURSIVE on_bt_iface(_, _)
on_bt_iface(obj, ifaces) ==
    IF ifaces = <<>> THEN <<>>
    ELSE LET iface == Head(ifaces)
         IN  (IF iface = GATT_MANAGER
              THEN <<RegCall(obj, iface, "RegisterApplication", MAN_PATH)>>
              ELSE <<>>)
             \o (IF iface = ADV_MANAGER
                 THEN <<RegCall(obj, iface, "RegisterAdvertisement", ADV_PATH)>>
                 ELSE <<>>)
             \o on_bt_iface(obj, Tail(ifaces))

\* setup_registration, first half: sd_bus_add_match.
setup_registration_match ==
    /\ pc = "match"
    /\ \/ pc' = "enumerate" /\ match' = TRUE /\ stderr' = stderr
       \/ Fatal("Error registering for bluetooth interfaces") /\ match' = match
    /\ UNCHANGED <<exported, input, fd, keybits, nodes, queue, cur, dev, regs, last, bluez,
                   answered, nenv>>

\* The calls on_bt_iface issues over the objects of a GetManagedObjects reply.
RECURSIVE enumerate(_)
enumerate(objs) ==
    IF objs = <<>> THEN <<>>
    ELSE on_bt_iface(Head(objs).obj, Head(objs).ifaces) \o enumerate(Tail(objs))

\* setup_registration, second half: the blocking GetManagedObjects call and
\* the loop over its reply; a failed call is fatal.
setup_registration_enumerate ==
    /\ pc = "enumerate"
    /\ \/ pc' = "wait" /\ regs' = regs \o enumerate(bluez) /\ stderr' = stderr
       \/ /\ \E message \in {"Error calling bluez ObjectManager", "Error parsing bluez results"} :
                Fatal(message)
          /\ regs' = regs
    /\ UNCHANGED <<exported, match, input, fd, keybits, nodes, queue, cur, dev, last, bluez,
                   answered, nenv>>

\* ------------------------------------------------- main: the event loop
\* sd_bus_wait returns because a message is queued.
main_wait ==
    /\ pc = "wait"
    /\ queue # <<>>
    /\ pc' = "process"
    /\ UNCHANGED <<exported, match, input, fd, keybits, nodes, queue, cur, dev, regs, last, bluez,
                   answered, stderr, nenv>>

\* The loop going back to sd_bus_wait after one sd_bus_process call.
main_process_once ==
    /\ pc = "process"
    /\ pc' = "wait"
    /\ UNCHANGED <<exported, match, input, fd, keybits, nodes, queue, cur, dev, regs, last, bluez,
                   answered, stderr, nenv>>

\* sd_bus_process finds nothing queued and returns 0: back to sd_bus_wait.
main_process_idle ==
    /\ pc = "process"
    /\ queue = <<>>
    /\ pc' = "wait"
    /\ UNCHANGED <<exported, match, input, fd, keybits, nodes, queue, cur, dev, regs, last, bluez,
                   answered, stderr, nenv>>

\* A dispatch loop that also runs while a handler is in event().
Dispatching_reentrant == pc \in {"process", "event"} /\ queue # <<>>

\* sd_bus_process takes the next queued message when main is in its
\* dispatch loop, between two handlers.
Dispatching == pc = "process" /\ queue # <<>>

\* chr_notsup answering with an empty method return.
chr_notsup_returns == Ret(<<>>)

\* chr_notsup
chr_notsup == Err("org.bluez.Error.NotSupported")

\* meth_noop
meth_noop == Ret(<<>>)

\* The handler a vtable names for a method other than WriteValue.
method(path, member) ==
    CASE path = CHR_PATH /\ member = "ReadValue" -> chr_notsup
      [] path = CHR_PATH /\ member = "StartNotify" -> chr_notsup
      [] path = CHR_PATH /\ member = "StopNotify" -> meth_noop
      [] path = ADV_PATH /\ member = "Release" -> meth_noop
      [] OTHER -> Err("org.freedesktop.DBus.Error.UnknownMethod")

\* Whether the library finds a handler for a call or a property read.
Routed(m) ==
    /\ m.path \in exported
    /\ \/ m.type = "call" /\ m.member \in vtable(m.path).methods
       \/ m.type = "get" /\ m.member \in vtable(m.path).props

\* A method call other than WriteValue: chr_notsup or meth_noop answers it.
dispatch_method ==
    /\ Dispatching
    /\ LET m == Head(queue)
       IN  /\ m.type = "call"
           /\ ~(Routed(m) /\ m.member = "WriteValue")
           /\ last' = Answer(m, IF Routed(m) THEN method(m.path, m.member)
                               ELSE Err("org.freedesktop.DBus.Error.UnknownMethod"))
    /\ queue' = Tail(queue)
    /\ UNCHANGED <<pc, exported, match, input, fd, keybits, nodes, cur, dev, regs, bluez,
                   answered, stderr, nenv>>

\* A property read: the library calls the getter of a listed property and
\* answers an unlisted one itself.
dispatch_get ==
    /\ Dispatching
    /\ LET m == Head(queue)
       IN  /\ m.type = "get"
           /\ last' = Answer(m, IF Routed(m) THEN getter(m.path, m.member)
                               ELSE Err("org.freedesktop.DBus.Error.UnknownProperty"))
    /\ queue' = Tail(queue)
    /\ UNCHANGED <<pc, exported, match, input, fd, keybits, nodes, cur, dev, regs, bluez,
                   answered, stderr, nenv>>

\* on_bt_iface as the match callback of an InterfacesAdded signal.
dispatch_signal ==
    /\ Dispatching
    /\ LET m == Head(queue)
       IN  /\ m.type = "signal"
           /\ regs' = regs \o on_bt_iface(m.path, m.arg)
    /\ queue' = Tail(queue)
    /\ UNCHANGED <<pc, exported, match, input, fd, keybits, nodes, cur, dev, last, bluez,
                   answered, stderr, nenv>>

\* on_reply issuing the registration call again when its reply is an error.
on_reply_retry ==
    /\ Dispatching
    /\ LET m == Head(queue)
       IN  /\ m.type = "reply"
           /\ stderr' = IF m.member # ""
                        THEN Append(stderr, [id |-> m.id, error |-> m.member])
                        ELSE stderr
           /\ regs' = IF m.member # "" THEN Append(regs, regs[m.arg[1]]) ELSE regs
    /\ queue' = Tail(queue)
    /\ UNCHANGED <<pc, exported, match, input, fd, keybits, nodes, cur, dev, last, bluez,
                   answered, nenv>>

\* on_reply: the reply to a registration call; an error is printed, and
\* nothing else is done with it.
on_reply ==
    /\ Dispatching
    /\ LET m == Head(queue)
       IN  /\ m.type = "reply"
           /\ stderr' = IF m.member # ""
                        THEN Append(stderr, [id |-> m.id, error |-> m.member])
                        ELSE stderr
    /\ queue' = Tail(queue)
    /\ UNCHANGED <<pc, exported, match, input, fd, keybits, nodes, cur, dev, regs, last, bluez,
                   answered, nenv>>

\* --------------------------------------------------- chr_writevalue
\* chr_writevalue with the length limit off by one: size > 33.
chr_writevalue_check_off_by_one(bytes) ==
    IF Len(bytes) = 0 \/ Len(bytes) > MAX_SIZE + 1
    THEN "org.bluez.Error.InvalidValueLength"
    ELSE IF \E i \in 1..Len(bytes) : char2key(bytes[i]) = KEY_UNKNOWN
    THEN "org.bluez.Error.NotPermitted"
    ELSE ""

\* chr_writevalue with a validation loop that stops before the last byte.
chr_writevalue_check_skip_last(bytes) ==
    IF Len(bytes) = 0 \/ Len(bytes) > MAX_SIZE
    THEN "org.bluez.Error.InvalidValueLength"
    ELSE IF \E i \in 1..(Len(bytes) - 1) : char2key(bytes[i]) = KEY_UNKNOWN
    THEN "org.bluez.Error.NotPermitted"
    ELSE ""

\* The error chr_writevalue answers before any emission, "" when the value
\* passes the length check and the validation loop.
chr_writevalue_check(bytes) ==
    IF Len(bytes) = 0 \/ Len(bytes) > MAX_SIZE
    THEN "org.bluez.Error.InvalidValueLength"
    ELSE IF \E i \in 1..Len(bytes) : char2key(bytes[i]) = KEY_UNKNOWN
    THEN "org.bluez.Error.NotPermitted"
    ELSE ""

\* chr_writevalue walking the bytes from the last to the first.
KeyAt_reversed(bytes, n) ==
    IF n <= Len(bytes) THEN char2key(bytes[Len(bytes) + 1 - n])
    ELSE IF n = Len(bytes) + 1 THEN KEY_ENTER
    ELSE KEY_UNKNOWN

\* The key of chr_writevalue's n-th call of event(): the digits in order,
\* then Enter, then the KEY_UNKNOWN sentinel.
KeyAt(bytes, n) ==
    IF n <= Len(bytes) THEN char2key(bytes[n])
    ELSE IF n = Len(bytes) + 1 THEN KEY_ENTER
    ELSE KEY_UNKNOWN

\* The `down` argument of that call: true for the keys, false for the sentinel.
DownAt(bytes, n) == n <= Len(bytes) + 1

\* chr_writevalue up to its first call of event().
dispatch_writevalue ==
    /\ Dispatching
    /\ LET m == Head(queue)
           e == chr_writevalue_check(m.arg)
       IN  /\ m.type = "call"
           /\ Routed(m)
           /\ m.member = "WriteValue"
           /\ IF e # ""
              THEN /\ last' = Answer(m, Err(e))
                   /\ UNCHANGED <<pc, cur>>
              ELSE /\ pc' = "event"
                   /\ cur' = [id |-> m.id, bytes |-> m.arg, n |-> 1,
                              down |-> DownAt(m.arg, 1), i |-> 0]
                   /\ last' = last
    /\ queue' = Tail(queue)
    /\ UNCHANGED <<exported, match, input, fd, keybits, nodes, dev, regs, bluez,
                   answered, stderr, nenv>>

\* event's two input events: the sync report, then the key event.
evts(k, down) ==
    << [type |-> EV_SYN, code |-> 0, value |-> 0],
       [type |-> EV_KEY, code |-> k, value |-> IF down THEN 1 ELSE 0] >>

\* What the device sees: a write of an input event, or a hold delay.
Written(id, e) ==
    [op |-> "write", id |-> id, type |-> e.type, code |-> e.code, value |-> e.value]
Slept(id, us) ==
    [op |-> "usleep", id |-> id, type |-> 0, code |-> 0, value |-> us]

\* event's loop without the test for KEY_UNKNOWN.
NextI_no_sentinel(k, down, i) ==
    IF i + 1 < Len(evts(k, down)) THEN i + 1 ELSE 2

\* event's loop: the index after i, or 2 (the usleep) when the loop ends,
\* at the end of evts or at an event whose code is KEY_UNKNOWN.
NextI(k, down, i) ==
    IF i + 1 < Len(evts(k, down)) /\ evts(k, down)[i + 2].code # KEY_UNKNOWN
    THEN i + 1
    ELSE 2

\* chr_writevalue's reply to the call being emitted, and back to the
\* dispatch loop.
Answered(result) ==
    /\ last' = Answer(Call(cur.id, CHR_PATH, "WriteValue", cur.bytes), result)
    /\ cur' = NoCur
    /\ pc' = "process"

\* event going on to its next step after a write() that failed.
event_write_no_abort ==
    /\ pc = "event"
    /\ cur.i < 2
    /\ LET k == KeyAt(cur.bytes, cur.n)
       IN  \/ /\ dev' = Append(dev, Written(cur.id, evts(k, cur.down)[cur.i + 1]))
              /\ cur' = [cur EXCEPT !.i = NextI(k, cur.down, cur.i)]
              /\ UNCHANGED <<pc, last, nenv>>
           \/ /\ nenv < MaxEnv
              /\ nenv' = nenv + 1
              /\ cur' = [cur EXCEPT !.i = NextI(k, cur.down, cur.i)]
              /\ UNCHANGED <<pc, last, dev>>
    /\ UNCHANGED <<exported, match, input, fd, keybits, nodes, queue, regs, bluez,
                   answered, stderr>>

\* One write() of event's loop; a failed write ends every loop of
\* chr_writevalue and is answered with Failed.
event_write ==
    /\ pc = "event"
    /\ cur.i < 2
    /\ LET k == KeyAt(cur.bytes, cur.n)
       IN  \/ /\ dev' = Append(dev, Written(cur.id, evts(k, cur.down)[cur.i + 1]))
              /\ cur' = [cur EXCEPT !.i = NextI(k, cur.down, cur.i)]
              /\ UNCHANGED <<pc, last, nenv>>
           \/ /\ nenv < MaxEnv
              /\ nenv' = nenv + 1
              /\ Answered(Err("org.bluez.Error.Failed"))
              /\ dev' = dev
    /\ UNCHANGED <<exported, match, input, fd, keybits, nodes, queue, regs, bluez,
                   answered, stderr>>

\* event returning after the hold delay of a press without the release.
AfterSleep_no_release ==
    IF cur.n < Len(cur.bytes) + 2
    THEN /\ cur' = [cur EXCEPT !.n = cur.n + 1,
                               !.down = DownAt(cur.bytes, cur.n + 1), !.i = 0]
         /\ UNCHANGED <<pc, last>>
    ELSE Answered(Ret(<<>>))

\* event after its usleep has returned: the release of a key that was
\* pressed, else back in chr_writevalue, which calls event for the next key
\* or, after the sentinel, sends the empty reply.
AfterSleep ==
    IF cur.down
    THEN /\ cur' = [cur EXCEPT !.down = FALSE, !.i = 0]
         /\ UNCHANGED <<pc, last>>
    ELSE IF cur.n < Len(cur.bytes) + 2
    THEN /\ cur' = [cur EXCEPT !.n = cur.n + 1,
                               !.down = DownAt(cur.bytes, cur.n + 1), !.i = 0]
         /\ UNCHANGED <<pc, last>>
    ELSE Answered(Ret(<<>>))

\* usleep(50000) runs its full time.
event_sleep ==
    /\ pc = "event"
    /\ cur.i = 2
    /\ dev' = Append(dev, Slept(cur.id, HOLD_US))
    /\ AfterSleep
    /\ UNCHANGED <<exported, match, input, fd, keybits, nodes, queue, regs, bluez,
                   answered, stderr, nenv>>

\* ---------------------------------------------------------- signals
\* A trapped signal is delivered and on_signal runs: it cuts the usleep of
\* event short, makes sd_bus_wait return -EINTR, and does nothing anywhere
\* else.
on_signal ==
    /\ ~Exited
    /\ nenv < MaxEnv
    /\ nenv' = nenv + 1
    /\ \/ /\ pc = "event" /\ cur.i = 2
          /\ \E us \in InterruptedSleeps : dev' = Append(dev, Slept(cur.id, us))
          /\ AfterSleep
       \/ /\ pc = "wait"
          /\ pc' = "cleanup"
          /\ UNCHANGED <<cur, dev, last>>
       \/ /\ ~(pc = "event" /\ cur.i = 2)
          /\ pc # "wait" \/ queue # <<>>
          /\ UNCHANGED <<pc, cur, dev, last>>
    /\ UNCHANGED <<exported, match, input, fd, keybits, nodes, queue, regs, bluez,
                   answered, stderr>>

\* ------------------------------------------------------ main: the end
\* uinput_cleanup closing the handle without the UI_DEV_DESTROY ioctl.
uinput_cleanup_no_destroy ==
    /\ pc = "cleanup"
    /\ pc' = "close"
    /\ UNCHANGED <<exported, match, input, queue, cur, dev, regs, last, bluez,
                   answered, stderr, nenv, nodes, fd, keybits>>

\* uinput_cleanup, first call: ioctl(UI_DEV_DESTROY).
uinput_cleanup ==
    /\ pc = "cleanup"
    /\ input' = "destroyed"
    /\ pc' = "close"
    /\ UNCHANGED <<exported, match, queue, cur, dev, regs, last, bluez,
                   answered, stderr, nenv, nodes, fd, keybits>>

\* uinput_cleanup, second call: close.
uinput_cleanup_close ==
    /\ pc = "close"
    /\ input' = "closed"
    /\ fd' = ""
    /\ pc' = "unref"
    /\ UNCHANGED <<exported, match, queue, cur, dev, regs, last, bluez,
                   answered, stderr, nenv, nodes, keybits>>

\* sd_bus_cleanup, and main returns EXIT_SUCCESS.
sd_bus_cleanup ==
    /\ pc = "unref"
    /\ pc' = "exit_ok"
    /\ UNCHANGED <<exported, match, input, fd, keybits, nodes, queue, cur, dev, regs, last, bluez,
                   answered, stderr, nenv>>

\* ------------------------------------------------------ environment
\* The process is blocked in a system call: the enumeration's reply, the
\* bus wait, or a usleep of event.  What reaches the process between two
\* steps that do not block is what reaches it in the blocking call before.
Blocked == pc \in {"enumerate", "wait"} \/ (pc = "event" /\ cur.i = 2)

\* A client calls a method of an exported object.
client_call ==
    /\ Blocked
    /\ nenv < MaxEnv
    /\ nenv' = nenv + 1
    /\ \/ \E bytes \in Inputs :
             queue' = Append(queue, Call(nenv + 1, CHR_PATH, "WriteValue", bytes))
       \/ \E path \in Paths : \E member \in vtable(path).methods \ {"WriteValue"} :
             queue' = Append(queue, Call(nenv + 1, path, member, <<>>))
    /\ UNCHANGED <<pc, exported, match, input, fd, keybits, nodes, cur, dev, regs, last, bluez,
                   answered, stderr>>

\* A client reads a property of an exported object.
client_get ==
    /\ Blocked
    /\ nenv < MaxEnv
    /\ nenv' = nenv + 1
    /\ \E path \in Paths : \E property \in Properties(path) :
          queue' = Append(queue, Get(nenv + 1, path, property))
    /\ UNCHANGED <<pc, exported, match, input, fd, keybits, nodes, cur, dev, regs, last, bluez,
                   answered, stderr>>

Present == {bluez[i].obj : i \in 1..Len(bluez)}

\* bluez adds an object; a process that has subscribed gets the
\* InterfacesAdded signal.
bluez_add ==
    /\ Blocked \/ pc = "match"
    /\ nenv < MaxEnv
    /\ nenv' = nenv + 1
    /\ \E obj \in Objs \ Present : \E ifaces \in IfaceLists :
          /\ bluez' = Append(bluez, [obj |-> obj, ifaces |-> ifaces])
          /\ queue' = IF match THEN Append(queue, Signal(obj, ifaces)) ELSE queue
    /\ UNCHANGED <<pc, exported, match, input, fd, keybits, nodes, cur, dev, regs, last,
                   answered, stderr>>

\* bluez removes an object (InterfacesRemoved is not subscribed to).
bluez_remove ==
    /\ Blocked \/ pc = "match"
    /\ nenv < MaxEnv
    /\ nenv' = nenv + 1
    /\ \E i \in 1..Len(bluez) :
          bluez' = SubSeq(bluez, 1, i - 1) \o SubSeq(bluez, i + 1, Len(bluez))
    /\ UNCHANGED <<pc, exported, match, input, fd, keybits, nodes, queue, cur, dev, regs, last,
                   answered, stderr>>

\* bluez answers a registration call, with a method return or an error.
bluez_reply ==
    /\ Blocked
    /\ nenv < MaxEnv
    /\ nenv' = nenv + 1
    /\ \E k \in (1..Len(regs)) \ answered : \E error \in {"", "org.bluez.Error.Failed"} :
          /\ queue' = Append(queue, Reply(nenv + 1, k, error))
          /\ answered' = answered \cup {k}
    /\ UNCHANGED <<pc, exported, match, input, fd, keybits, nodes, cur, dev, regs, last, bluez, stderr>>

Next ==
    \/ main_open_bus
    \/ setup_uinput
    \/ setup_objects
    \/ setup_registration_match
    \/ setup_registration_enumerate
    \/ main_wait
    \/ main_process_idle
    \/ dispatch_method
    \/ dispatch_get
    \/ dispatch_signal
    \/ on_reply
    \/ dispatch_writevalue
    \/ event_write
    \/ event_sleep
    \/ on_signal
    \/ uinput_cleanup
    \/ uinput_cleanup_close
    \/ sd_bus_cleanup
    \/ client_call
    \/ client_get
    \/ bluez_add
    \/ bluez_remove
    \/ bluez_reply

Spec == Init /\ [][Next]_vars

\* ------------------------------------------- one WriteValue call alone
\* The bytes around both ends of '0'..'9': '/', '0', '9', ':'.
Bytes == {47, 48, 57, 58}

\* The values of the call: every sequence of Bytes up to MaxLen, and the
\* values around the length limit, of digits and with a byte that is none.
WriteInputs ==
    UNION {[1..n -> Bytes] : n \in 0..MaxLen}
      \cup {Rep(MAX_SIZE - 1, 49), Rep(MAX_SIZE, 49), Rep(MAX_SIZE + 1, 49),
            Rep(MAX_SIZE + 2, 49), Rep(MAX_SIZE + 1, 58),
            Rep(MAX_SIZE - 1, 49) \o <<58>>, <<47>> \o Rep(MAX_SIZE - 1, 49)}

\* The process in its event loop after a setup without failure, one
\* WriteValue call queued, and one event left to the environment.
InitWrite ==
    /\ pc = "wait"
    /\ exported = {MAN_PATH, ADV_PATH, SVC_PATH, CHR_PATH}
    /\ match = TRUE
    /\ input = "created"
    /\ \E bytes \in WriteInputs : queue = <<Call(1, CHR_PATH, "WriteValue", bytes)>>
    /\ cur = NoCur
    /\ dev = <<>>
    /\ regs = <<>>
    /\ last = NoCall
    /\ bluez = <<>>
    /\ answered = {}
    /\ stderr = <<>>
    /\ nenv = MaxEnv - 1
    /\ nodes = <<"ENOENT", "ok", "ok">>
    /\ fd = devices[2]
    /\ keybits = setup_keybits

NextWrite ==
    \/ main_wait
    \/ main_process_idle
    \/ dispatch_writevalue
    \/ event_write
    \/ event_sleep
    \/ on_signal
    \/ uinput_cleanup
    \/ uinput_cleanup_close
    \/ sd_bus_cleanup

SpecWrite == InitWrite /\ [][NextWrite]_vars

\* ------------------------------------------------------------ claims
\* The entries of the device log that belong to call id, and the key events
\* among them.
DevOf(id) == SelectSeq(dev, LAMBDA e : e.id = id)
KeysOf(id) == SelectSeq(dev, LAMBDA e : e.id = id /\ e.op = "write" /\ e.type = 1)

IsWriteValue(c) == c.type = "call" /\ c.member = "WriteValue" /\ c.path = "/svc/chr"
Succeeded(c) == c.result = [error |-> "", value |-> <<>>]
Failed(c, e) == c.result = [error |-> e, value |-> <<>>]

\* C1: for each manager kind, at most one registration call is issued
\* during the process lifetime, however often and by whichever source the
\* manager is reported.
C1_AtMostOneRegistration ==
    \A member \in {"RegisterApplication", "RegisterAdvertisement"} :
       Cardinality({i \in 1..Len(regs) : regs[i].member = member}) <= 1

\* C2: a WriteValue of length 0 or above 32 is answered with
\* InvalidValueLength whatever its bytes, never enters the emission, and no
\* event of that call, key or sync, is on the device.
C2_InvalidLength ==
    /\ (IsWriteValue(last) /\ (Len(last.arg) = 0 \/ Len(last.arg) > 32))
          => /\ Failed(last, "org.bluez.Error.InvalidValueLength")
             /\ DevOf(last.id) = <<>>
    /\ pc = "event" => Len(cur.bytes) \in 1..32

\* C2's case: a value of more than 32 bytes has been answered.
C2_Witness ==
    /\ IsWriteValue(last)
    /\ Len(last.arg) > 32
    /\ \E i \in 1..Len(last.arg) : last.arg[i] \notin 48..57
    /\ Failed(last, "org.bluez.Error.InvalidValueLength")

\* The bytes '0'..'9'.
IsDigit(b) == b \in 48..57
AllDigits(bytes) == \A i \in 1..Len(bytes) : IsDigit(bytes[i])

\* C3: a WriteValue of 1..32 bytes with a byte outside '0'..'9' anywhere is
\* answered with NotPermitted, never enters the emission, and no key event
\* of that call is on the device.
C3_NotPermitted ==
    /\ (IsWriteValue(last) /\ Len(last.arg) \in 1..32 /\ ~AllDigits(last.arg))
          => /\ Failed(last, "org.bluez.Error.NotPermitted")
             /\ KeysOf(last.id) = <<>>
    /\ pc = "event" => AllDigits(cur.bytes)

\* C3's case: the only byte that is no digit is the last, after a digit.
C3_Witness ==
    /\ IsWriteValue(last)
    /\ Len(last.arg) \in 2..32
    /\ AllDigits(SubSeq(last.arg, 1, Len(last.arg) - 1))
    /\ ~IsDigit(last.arg[Len(last.arg)])
    /\ Failed(last, "org.bluez.Error.NotPermitted")

\* The key of a digit byte as the claims name it: KEY_0 is 11, KEY_1..KEY_9
\* are 2..10.
DigitKey(b) == IF b = 48 THEN 11 ELSE b - 47

Press(id, code) == [op |-> "write", id |-> id, type |-> 1, code |-> code, value |-> 1]
Release(id, code) == [op |-> "write", id |-> id, type |-> 1, code |-> code, value |-> 0]

\* down, up of each digit in order, then down, up of Enter (28).
RECURSIVE ExpectedKeys(_, _)
ExpectedKeys(id, bytes) ==
    IF bytes = <<>> THEN <<Press(id, 28), Release(id, 28)>>
    ELSE <<Press(id, DigitKey(Head(bytes))), Release(id, DigitKey(Head(bytes)))>>
         \o ExpectedKeys(id, Tail(bytes))

IsPrefix(s, t) == Len(s) <= Len(t) /\ s = SubSeq(t, 1, Len(s))

\* C4: a WriteValue of 1..32 digits is answered with success or, a device
\* write having failed, with Failed; when the success reply is sent the key
\* events of the call are exactly down, up of each digit in input order and
\* then down, up of Enter; before the reply they are an initial part of
\* that sequence.
C4_EmissionOrder ==
    /\ (IsWriteValue(last) /\ Succeeded(last))
          => KeysOf(last.id) = ExpectedKeys(last.id, last.arg)
    /\ (IsWriteValue(last) /\ Len(last.arg) \in 1..32 /\ AllDigits(last.arg))
          => Succeeded(last) \/ Failed(last, "org.bluez.Error.Failed")
    /\ pc = "event"
          => /\ last.id # cur.id
             /\ IsPrefix(KeysOf(cur.id), ExpectedKeys(cur.id, cur.bytes))

\* C4's case: 32 digits have been typed and answered with success.
C4_Witness ==
    /\ IsWriteValue(last)
    /\ Len(last.arg) = 32
    /\ Succeeded(last)
    /\ Len(KeysOf(last.id)) = 66

\* The time slept between entries a and b of a device log.
RECURSIVE Held(_, _, _)
Held(d, a, b) ==
    IF a >= b - 1 THEN 0
    ELSE (IF d[a + 1].op = "usleep" THEN d[a + 1].value ELSE 0) + Held(d, a + 1, b)

IsKey(e) == e.op = "write" /\ e.type = 1

\* C5: in a successful WriteValue every press is followed, with no other key
\* event between, by the release of the same key, at least 50 ms later,
\* also when a signal arrives during the hold.
C5_HoldDelay ==
    (IsWriteValue(last) /\ Succeeded(last)) =>
        LET d == DevOf(last.id)
        IN  \A i \in 1..Len(d) :
               (IsKey(d[i]) /\ d[i].value = 1) =>
                  \E j \in (i + 1)..Len(d) :
                     /\ IsKey(d[j]) /\ d[j].value = 0 /\ d[j].code = d[i].code
                     /\ \A k \in (i + 1)..(j - 1) : ~IsKey(d[k])
                     /\ Held(d, i, j) >= 50000

\* C6: a failed device write ends the emission of its call: the reply is
\* Failed and sent in that step, nothing is written, the process stays in
\* its dispatch loop; the device log only ever grows, and only by events of
\* the call in flight, which is later than every answered call; and a call
\* answered with success, also after a failed one, has its complete key
\* sequence on the device.
C6_WriteFailure ==
    /\ [][(last' # last /\ IsWriteValue(last') /\ Failed(last', "org.bluez.Error.Failed"))
            => /\ dev' = dev
               /\ pc = "event" /\ pc' = "process"
               /\ last'.id = cur.id]_vars
    /\ [][dev' # dev
            => /\ pc = "event" /\ cur.id > last.id
               /\ Len(dev') = Len(dev) + 1
               /\ IsPrefix(dev, dev')
               /\ dev'[Len(dev')].id = cur.id]_vars
    /\ [][last'.id >= last.id]_vars
    /\ []((IsWriteValue(last) /\ Failed(last, "org.bluez.Error.Failed"))
            => IsPrefix(KeysOf(last.id), ExpectedKeys(last.id, last.arg)))
    /\ []((IsWriteValue(last) /\ Succeeded(last))
            => KeysOf(last.id) = ExpectedKeys(last.id, last.arg))

\* C6's case: a call answered with success after an earlier call whose
\* emission was cut before its Enter.
C6_Witness ==
    /\ IsWriteValue(last)
    /\ Succeeded(last)
    /\ \E i \in 1..Len(dev) :
          /\ dev[i].id < last.id
          /\ IsKey(dev[i])
          /\ ~\E j \in 1..Len(dev) :
                dev[j].id = dev[i].id /\ IsKey(dev[j]) /\ dev[j].code = 28

\* The calls that are queued or in emission.
Unanswered ==
    {queue[k].id : k \in 1..Len(queue)} \cup (IF pc = "event" THEN {cur.id} ELSE {})

\* C7: the events of the calls lie on the device in dispatch order, call
\* after call; an event of a call that is not the one in emission belongs
\* to an answered call; and from the first event of an emission to its
\* reply nothing is taken from the queue, no registration call is issued
\* and no other call is answered.
C7_NoInterleaving ==
    /\ [](\A i, j \in 1..Len(dev) : i < j => dev[i].id <= dev[j].id)
    /\ [](\A i \in 1..Len(dev) :
             dev[i].id \in Unanswered => (pc = "event" /\ dev[i].id = cur.id))
    /\ [][pc = "event"
            => /\ IsPrefix(queue, queue')
               /\ regs' = regs
               /\ stderr' = stderr
               /\ pc' \in {"event", "process"}
               /\ pc' = "event" => (cur'.id = cur.id /\ last' = last)
               /\ pc' = "process" => last'.id = cur.id
               /\ dev' # dev => dev'[Len(dev')].id = cur.id]_vars

\* C7's case: during the emission of one WriteValue call a discovery
\* notification and, behind it, a second valid WriteValue call are queued.
C7_Witness ==
    /\ pc = "event"
    /\ DevOf(cur.id) # <<>>
    /\ Len(queue) >= 2
    /\ queue[1].type = "signal"
    /\ IsWriteValue(queue[2])
    /\ Len(queue[2].arg) > 0 /\ AllDigits(queue[2].arg)

\* C8: whenever one of ReadValue, StartNotify, StopNotify and Release is
\* dispatched, the first two are answered with NotSupported and the other
\* two with an empty return; the device log, the registration calls and the
\* exported objects stay as they are, the advertisement among them.
C8_FixedAnswers ==
    [][(/\ pc = "process" /\ queue # <<>> /\ queue' = Tail(queue)
        /\ Head(queue).type = "call"
        /\ Head(queue).member \in {"ReadValue", "StartNotify", "StopNotify", "Release"})
         => LET m == Head(queue)
            IN  /\ last'.id = m.id /\ last'.member = m.member
                /\ last'.result =
                      IF m.member \in {"ReadValue", "StartNotify"}
                      THEN [error |-> "org.bluez.Error.NotSupported", value |-> <<>>]
                      ELSE [error |-> "", value |-> <<>>]
                /\ dev' = dev
                /\ regs' = regs
                /\ exported' = exported
                /\ "/adv" \in exported'
                /\ pc' = "process"]_vars

\* C8's case: Release has been answered after the registration call for
\* the advertisement was issued.
C8_Witness ==
    /\ last.type = "call" /\ last.member = "Release" /\ Succeeded(last)
    /\ \E i \in 1..Len(regs) : regs[i].member = "RegisterAdvertisement"
    /\ "/adv" \in exported

\* ------------------------------------------------ the program's own steps
\* The steps of the process itself: it runs its next instruction, and
\* sd_bus_wait returns once a message is queued.
Step ==
    \/ main_open_bus
    \/ setup_uinput
    \/ setup_objects
    \/ setup_registration_match
    \/ setup_registration_enumerate
    \/ main_wait
    \/ main_process_idle
    \/ dispatch_method
    \/ dispatch_get
    \/ dispatch_signal
    \/ on_reply
    \/ dispatch_writevalue
    \/ event_write
    \/ event_sleep
    \/ uinput_cleanup
    \/ uinput_cleanup_close
    \/ sd_bus_cleanup

\* The start of a run that has MaxFairEnv environment events ahead.
InitFair ==
    /\ pc = "start"
    /\ exported = {}
    /\ match = FALSE
    /\ input = "none"
    /\ queue = <<>>
    /\ cur = NoCur
    /\ dev = <<>>
    /\ regs = <<>>
    /\ last = NoCall
    /\ bluez = <<>>
    /\ answered = {}
    /\ stderr = <<>>
    /\ nenv = MaxEnv - MaxFairEnv
    /\ nodes \in Nodes
    /\ fd = ""
    /\ keybits = {}

FairSpec == InitFair /\ [][Next]_vars /\ WF_vars(Step)

\* The registration calls owed to one object with its interfaces.
ManagerCalls(obj, ifaces) ==
    {[obj |-> obj, iface |-> "org.bluez.GattManager1",
      member |-> "RegisterApplication", path |-> "/"] :
        k \in {k \in 1..Len(ifaces) : ifaces[k] = "org.bluez.GattManager1"}}
    \cup
    {[obj |-> obj, iface |-> "org.bluez.LEAdvertisingManager1",
      member |-> "RegisterAdvertisement", path |-> "/adv"] :
        k \in {k \in 1..Len(ifaces) : ifaces[k] = "org.bluez.LEAdvertisingManager1"}}

Issued(c) == \E i \in 1..Len(regs) : regs[i] = c

\* The calls a step has added to the registration calls.
NewCalls == {regs'[i] : i \in (Len(regs) + 1)..Len(regs')}

IsNotification(m) == m.type = "signal" /\ m.member = "InterfacesAdded"

Notifications == {Signal(obj, ifaces) : obj \in Objs, ifaces \in IfaceLists}

Pending(s) == \E k \in 1..Len(queue) : queue[k] = s

\* C9: the subscription is installed when the enumeration is made; the
\* answered enumeration issues the registration calls of every manager
\* present, a dispatched notification those of every manager it reports,
\* RegisterAdvertisement with the advertisement path and
\* RegisterApplication with the root path; while the process runs after
\* the enumeration, every manager present has its call issued or its
\* notification queued; and a queued notification is dispatched unless
\* the process ends first.
C9_ManagersRegistered ==
    /\ [](pc = "enumerate" => match)
    /\ [][(pc = "enumerate" /\ pc' = "wait")
            => /\ IsPrefix(regs, regs')
               /\ NewCalls = UNION {ManagerCalls(bluez[k].obj, bluez[k].ifaces) :
                                       k \in 1..Len(bluez)}]_vars
    /\ [][(pc = "process" /\ queue # <<>> /\ queue' = Tail(queue)
           /\ IsNotification(Head(queue)))
            => /\ IsPrefix(regs, regs')
               /\ NewCalls = ManagerCalls(Head(queue).path, Head(queue).arg)]_vars
    /\ [](pc \in {"wait", "process", "event"}
            => \A k \in 1..Len(bluez) :
                  \A c \in ManagerCalls(bluez[k].obj, bluez[k].ifaces) :
                     \/ Issued(c)
                     \/ \E q \in 1..Len(queue) :
                           /\ IsNotification(queue[q])
                           /\ c \in ManagerCalls(queue[q].path, queue[q].arg))
    /\ \A s \in Notifications : Pending(s) ~> (Exited \/ ~Pending(s))

\* C9's case: a manager announced by a notification alone, after the
\* enumeration and after a client's call, has its registration call.
C9_Witness ==
    /\ pc = "wait"
    /\ queue = <<>>
    /\ last.type = "call"
    /\ Len(bluez) = 1
    /\ Len(regs) = 1
    /\ regs[1] \in ManagerCalls(bluez[1].obj, bluez[1].ifaces)

\* The answers to the property reads.
ExpectedProperty(path, property) ==
    CASE path = "/adv" /\ property = "Type" -> [error |-> "", value |-> <<"s", "broadcast">>]
      [] path = "/svc" /\ property = "Includes" -> [error |-> "", value |-> <<"ao">>]
      [] path = "/svc/chr" /\ property = "Flags" ->
            [error |-> "", value |-> <<"as", "encrypt-authenticated-write">>]
      [] OTHER -> [error |-> "org.freedesktop.DBus.Error.UnknownProperty", value |-> <<>>]

\* C10: the step that takes the reply to a registration call changes
\* nothing of the process but its queue and, for an error, its stderr: it
\* stays in its loop and issues no call; registration calls are issued
\* only by the enumeration and by a dispatched notification, with or
\* without replies outstanding; the loop is left only from sd_bus_wait;
\* and property reads and WriteValue calls are answered by their
\* arguments alone.
C10_ReplyIgnored ==
    /\ [][(pc = "process" /\ queue # <<>> /\ queue' = Tail(queue)
           /\ Head(queue).type = "reply")
            => /\ pc' = "process"
               /\ regs' = regs
               /\ exported' = exported /\ match' = match /\ input' = input
               /\ dev' = dev /\ last' = last
               /\ stderr' = IF Head(queue).member = "" THEN stderr
                            ELSE Append(stderr, [id |-> Head(queue).id,
                                                 error |-> Head(queue).member])]_vars
    /\ [][regs' # regs
            => \/ pc = "enumerate"
               \/ pc = "process" /\ queue # <<>> /\ IsNotification(Head(queue))]_vars
    /\ [][(pc \in {"wait", "process", "event"} /\ pc' \notin {"wait", "process", "event"})
            => pc = "wait" /\ pc' = "cleanup"]_vars
    /\ [](last.type = "get" => last.result = ExpectedProperty(last.path, last.member))
    /\ [](IsWriteValue(last)
            => \/ /\ Len(last.arg) = 0 \/ Len(last.arg) > 32
                  /\ Failed(last, "org.bluez.Error.InvalidValueLength")
               \/ /\ Len(last.arg) \in 1..32 /\ ~AllDigits(last.arg)
                  /\ Failed(last, "org.bluez.Error.NotPermitted")
               \/ /\ Len(last.arg) \in 1..32 /\ AllDigits(last.arg)
                  /\ \/ Succeeded(last) /\ KeysOf(last.id) = ExpectedKeys(last.id, last.arg)
                     \/ Failed(last, "org.bluez.Error.Failed"))

\* C10's case: after the error reply to a registration call was taken, a
\* valid WriteValue call was answered with success, and no further
\* registration call was issued.
C10_Witness ==
    /\ IsWriteValue(last)
    /\ Succeeded(last)
    /\ Len(regs) = 1
    /\ \E i \in 1..Len(stderr) : stderr[i].id < last.id

\* A hold delay of an emission that a trapped signal has cut short.
SignalInEmission ==
    \E i \in 1..Len(dev) : dev[i].op = "usleep" /\ dev[i].value < 50000

\* C11: a signal delivered during an emission does not end the emission,
\* which is left only with its reply sent; and once a signal was delivered
\* during an emission the process ends, with no further signal or message.
C11_SignalDuringEmission ==
    /\ [][pc = "event" => pc' \in {"event", "process"}]_vars
    /\ [][(pc = "event" /\ pc' = "process") => last'.id = cur.id]_vars
    /\ SignalInEmission ~> Exited

\* C12: the bus wait is left, other than for a message, only for the
\* cleanup; the cleanup destroys the created device, then closes it, then
\* releases the bus, then the process ends with success, in that order
\* and with nothing in between; the process ends with failure only from
\* the setup, before its loop, and does so at the latest in setup_uinput
\* when no device path opens.
C12_Shutdown ==
    /\ [][(pc = "wait" /\ pc' # "wait") => pc' \in {"process", "cleanup"}]_vars
    /\ [][(pc = "cleanup" /\ pc' # pc)
            => pc' = "close" /\ input = "created" /\ input' = "destroyed"]_vars
    /\ [][(pc = "close" /\ pc' # pc)
            => pc' = "unref" /\ input = "destroyed" /\ input' = "closed"]_vars
    /\ [][(pc = "unref" /\ pc' # pc) => pc' = "exit_ok" /\ input' = "closed"]_vars
    /\ [][(pc' = "exit_ok" /\ pc # "exit_ok") => pc = "unref"]_vars
    /\ [][(input' # input /\ input' \in {"destroyed", "closed"})
            => pc \in {"cleanup", "close"}]_vars
    /\ [](pc \in {"unref", "exit_ok"} => input = "closed")
    /\ [][(pc' = "exit_fail" /\ pc # "exit_fail")
            => pc \in {"start", "uinput", "objects", "match", "enumerate"}]_vars
    /\ []((\A i \in 1..Len(nodes) : nodes[i] # "ok")
            => pc \in {"start", "uinput", "exit_fail"})
    /\ [][(pc \in {"exit_ok", "exit_fail"}) => (pc' = pc)]_vars

\* C12's case: the process has ended with success after a signal in the
\* bus wait, with a WriteValue call served before.
C12_Witness ==
    /\ pc = "exit_ok"
    /\ input = "closed"
    /\ IsWriteValue(last)

\* ------------------------------------------- one property getter alone
\* The names a getter may be handed: every name of the three vtables, and
\* one that is in none.
PropertyNames ==
    adv_vtable.props \cup svc_vtable.props \cup chr_vtable.props \cup {"Bogus"}

\* The process in its event loop after a setup without failure, and one
\* property read on its way to the getter of its path.
InitProps ==
    /\ pc = "wait"
    /\ exported = {MAN_PATH, ADV_PATH, SVC_PATH, CHR_PATH}
    /\ match = TRUE
    /\ input = "created"
    /\ \E path \in Paths : \E property \in PropertyNames :
          queue = <<Get(1, path, property)>>
    /\ cur = NoCur
    /\ dev = <<>>
    /\ regs = <<>>
    /\ last = NoCall
    /\ bluez = <<>>
    /\ answered = {}
    /\ stderr = <<>>
    /\ nenv = MaxEnv - 1
    /\ nodes = <<"ENOENT", "ok", "ok">>
    /\ fd = devices[2]
    /\ keybits = setup_keybits

\* The getter of the read's path is called with the read's property name,
\* and what it returns is the answer.
props_call ==
    /\ Dispatching
    /\ LET m == Head(queue)
       IN  /\ m.type = "get"
           /\ last' = Answer(m, getter(m.path, m.member))
    /\ queue' = Tail(queue)
    /\ UNCHANGED <<pc, exported, match, input, fd, keybits, nodes, cur, dev, regs,
                   bluez, answered, stderr, nenv>>

NextProps ==
    \/ main_wait
    \/ main_process_idle
    \/ props_call
    \/ on_signal
    \/ uinput_cleanup
    \/ uinput_cleanup_close
    \/ sd_bus_cleanup

SpecProps == InitProps /\ [][NextProps]_vars

\* The properties listed for each entity.
Listed(path) ==
    CASE path = "/adv" -> {"Type", "ServiceUUIDs", "ManufacturerData", "SolicitUUIDs",
                           "ServiceData", "IncludeTxPower"}
      [] path = "/svc" -> {"UUID", "Primary", "Characteristics", "Includes"}
      [] path = "/svc/chr" -> {"UUID", "Service", "Notifying", "Flags", "Descriptors"}
      [] OTHER -> {}

QueuedId(id) == \E k \in 1..Len(queue) : queue[k].id = id

\* C14: the loop goes back to the bus wait only with nothing queued;
\* a message leaves the queue only as its head, dispatched in the loop,
\* one a step; and every queued message is dispatched unless the process
\* ends first.
C14_Drain ==
    /\ [][(pc = "process" /\ pc' = "wait") => queue = <<>>]_vars
    /\ [][~IsPrefix(queue, queue') => (pc = "process" /\ queue' = Tail(queue))]_vars
    /\ \A id \in 0..MaxEnv : QueuedId(id) ~> (Exited \/ ~QueuedId(id))

\* C14's case: after one message was answered the loop is about to
\* dispatch the next one without having gone back to the bus wait.
C14_Witness ==
    /\ pc = "process"
    /\ queue # <<>>
    /\ Head(queue).type \in {"call", "get"}
    /\ last.type # ""
    /\ last.id < Head(queue).id

IsSyn(e) == e.op = "write" /\ e.type = 0

\* C15: every key event on the device is written right after a sync
\* report of its call, and none carries the sentinel's code (240); a
\* successful write of n digits has 2 * (n + 1) key events on the device,
\* each followed by a sync report, and its events end with the release of
\* Enter, a hold delay, the sentinel's sync report and one hold delay.
C15_Sentinel ==
    /\ \A i \in 1..Len(dev) :
          IsKey(dev[i]) => /\ i > 1
                           /\ IsSyn(dev[i - 1])
                           /\ dev[i - 1].id = dev[i].id
                           /\ dev[i].code # 240
    /\ (IsWriteValue(last) /\ Succeeded(last))
         => LET d == DevOf(last.id)
                n == Len(last.arg)
            IN  /\ Len(KeysOf(last.id)) = 2 * (n + 1)
                /\ \A i \in 1..Len(d) :
                      IsKey(d[i]) => \E j \in (i + 1)..Len(d) : IsSyn(d[j])
                /\ Len(d) >= 4
                /\ d[Len(d) - 3] = Release(last.id, 28)
                /\ d[Len(d) - 2].op = "usleep"
                /\ IsSyn(d[Len(d) - 1])
                /\ d[Len(d)].op = "usleep"

\* C15's case: a successful write of one digit, with its four key events
\* and the sentinel's sync report behind them.
C15_Witness ==
    /\ IsWriteValue(last)
    /\ Succeeded(last)
    /\ Len(last.arg) = 1
    /\ Len(KeysOf(last.id)) = 4
    /\ IsSyn(dev[Len(dev) - 1])

\* ------------------------------------------------------ the setup alone
\* The start of the process with any outcome of open() on each path.
InitSetup ==
    /\ pc = "start"
    /\ exported = {}
    /\ match = FALSE
    /\ input = "none"
    /\ queue = <<>>
    /\ cur = NoCur
    /\ dev = <<>>
    /\ regs = <<>>
    /\ last = NoCall
    /\ bluez = <<>>
    /\ answered = {}
    /\ stderr = <<>>
    /\ nenv = MaxEnv - 1
    /\ nodes \in [1..Len(devices) -> OpenResults]
    /\ fd = ""
    /\ keybits = {}

NextSetup ==
    \/ main_open_bus
    \/ setup_uinput
    \/ setup_objects
    \/ setup_registration_match
    \/ setup_registration_enumerate
    \/ on_signal
    \/ uinput_cleanup
    \/ uinput_cleanup_close
    \/ sd_bus_cleanup

SpecSetup == InitSetup /\ [][NextSetup]_vars

CanOpen == \E i \in 1..Len(nodes) : nodes[i] = "ok"

\* The first path that can be opened.
FirstOpen == devices[CHOOSE i \in 1..Len(nodes) :
                        nodes[i] = "ok" /\ \A j \in 1..(i - 1) : nodes[j] # "ok"]

\* C16: once setup_uinput has run, the handle is on the first path that can
\* be opened, whatever the paths before it answered; and setup_uinput
\* ends the process over the open loop only when no path can be opened.
C16_FirstOpenable ==
    /\ fd # "" => fd = FirstOpen
    /\ (\E i \in 1..Len(stderr) :
           stderr[i].error \in {"Error opening " \o devices[k] : k \in 1..Len(devices)}
                                 \cup {"Error opening (null)"})
         => ~CanOpen

\* C17: the device is created with the key codes of the ten digits
\* (2..11) and of Enter (28) declared and no other; the declared codes
\* never change once declared; and every key event on the device carries
\* a declared code, never the sentinel's (240).
C17_KeySet ==
    /\ [](input # "none" => keybits = (2..11) \cup {28})
    /\ [](input = "none" => keybits = {})
    /\ [][keybits # {} => keybits' = keybits]_vars
    /\ [](\A i \in 1..Len(dev) :
             IsKey(dev[i]) => (dev[i].code \in keybits /\ dev[i].code # 240))

\* C17's case: a digit key and Enter have been written to the created
\* device.
C17_Witness ==
    /\ keybits # {}
    /\ \E i \in 1..Len(dev) : IsKey(dev[i]) /\ dev[i].code = 28
    /\ \E i \in 1..Len(dev) : IsKey(dev[i]) /\ dev[i].code \in 2..11

\* The key codes whose last key event in a device log is a press.
Pressed(d) ==
    {d[i].code : i \in {i \in 1..Len(d) :
        /\ IsKey(d[i])
        /\ d[i].value = 1
        /\ \A j \in (i + 1)..Len(d) : ~(IsKey(d[j]) /\ d[j].code = d[i].code)}}

\* C18: at every moment at most one key is pressed and not released on
\* the device, and once a WriteValue call is answered, with whichever
\* result, no key is pressed.
C18_NoKeyLeftPressed ==
    /\ Cardinality(Pressed(dev)) <= 1
    /\ (IsWriteValue(last) /\ pc # "event") => Pressed(dev) = {}

\* C18 as amended: among the events of any one call at most one key is
\* pressed and not released; a call answered with success,
\* InvalidValueLength or NotPermitted leaves none of its keys pressed; a
\* call answered with Failed leaves at most the key pressed whose press is
\* its last key event.
C18_AtMostOnePerCall ==
    /\ \A id \in 1..MaxEnv : Cardinality(Pressed(DevOf(id))) <= 1
    /\ (IsWriteValue(last) /\ ~Failed(last, "org.bluez.Error.Failed"))
         => Pressed(DevOf(last.id)) = {}
    /\ (IsWriteValue(last) /\ Failed(last, "org.bluez.Error.Failed"))
         => LET keys == KeysOf(last.id)
            IN  Pressed(DevOf(last.id)) # {}
                  => (keys[Len(keys)].value = 1
                      /\ Pressed(DevOf(last.id)) = {keys[Len(keys)].code})

\* C18's case: a call is answered with success after an earlier call was
\* cut by a failed write with a key pressed.
C18_Witness ==
    /\ IsWriteValue(last)
    /\ Succeeded(last)
    /\ \E id \in 1..MaxEnv : id < last.id /\ Pressed(DevOf(id)) # {}

AllExported == {"/", "/adv", "/svc", "/svc/chr"} \subseteq exported

\* C19: a registration call is issued, and a reply to one is sent, only
\* with the device created and the object manager, the advertisement, the
\* service and the characteristic exported; what is exported stays
\* exported; and so it is in every state with a registration call issued.
C19_ObjectsBeforeRegistration ==
    /\ [][regs' # regs => (input = "created" /\ keybits # {} /\ AllExported)]_vars
    /\ [][answered' # answered => (input = "created" /\ AllExported)]_vars
    /\ [][exported # {} => exported' = exported]_vars
    /\ [](regs # <<>> => (input # "none" /\ AllExported))

\* C19's case: bluez has replied to a registration call and a WriteValue
\* call was served after that.
C19_Witness ==
    /\ regs # <<>>
    /\ answered # {}
    /\ IsWriteValue(last)
    /\ Succeeded(last)
    /\ KeysOf(last.id) # <<>>

====
